---- MODULE Spec2Model ----
(***************************************************************************)
(* Model of turkey.py: matching customers and turkeys.                     *)
(*                                                                         *)
(* Representation.  Money amounts are exact multiples of one half (the     *)
(* weights drawn are integers, LEFTOVER_VALUE is 0.5 and agreed_price      *)
(* divides by 2.0), so every amount is stored as an integer number of      *)
(* 1/Scale currency units.  Python lists are 0-based, sequences here are   *)
(* 1-based: list index i of the source is index i+1 of the model.  A       *)
(* Turkey or Customer object is identified by its position in its list     *)
(* (the classes define neither __eq__ nor __hash__, so sets and dict keys  *)
(* compare objects by identity).  A dict is a function from keys to        *)
(* values.                                                                 *)
(***************************************************************************)
EXTENDS Integers, Sequences, FiniteSets

\* ------------------------------------------------------------------ bounds
MaxTurkeys == 2
MaxCustomers == 3

\* weights a row of turkeys.tsv may hold (float() accepts a minus sign)
TurkeyWeights == {-2, 5, 10}
\* orders a row of customers.tsv may hold
TargetWeights == {-2, 4, 12}
\* the Name column of row i of customers.tsv
Names == <<"A", "B", "C", "D", "E">>

\* --------------------------------------------------------------- constants
Scale == 2
PRICE_PER_KILO == 1
\* 0.5 as numerator and denominator
LEFTOVER_VALUE == <<1, 2>>
\* Python's None, where an index is expected
None == 0

VARIABLES turkeys, customers, pc, called, raised, pairing, profit,
          matrix, t_to_c, c_to_t, assign_t_to_c, assign_c_to_t

vars == <<turkeys, customers, pc, called, raised, pairing, profit,
          matrix, t_to_c, c_to_t, assign_t_to_c, assign_c_to_t>>

\* ----------------------------------------------------------------- helpers
Min(a, b) == IF a < b THEN a ELSE b
Max(a, b) == IF a > b THEN a ELSE b

\* Python's sum() over the values of a finite function
RECURSIVE sum(_)
sum(f) ==
    IF DOMAIN f = {} THEN 0
    ELSE LET x == CHOOSE y \in DOMAIN f : TRUE
         IN  f[x] + sum([y \in DOMAIN f \ {x} |-> f[y]])

\* ----------------------------------------------------------------- classes
Turkey(weight) == [weight |-> weight]

Customer(name, target_weight) == [name |-> name, target_weight |-> target_weight]

calc_price(weight) == weight * PRICE_PER_KILO * Scale

price(turkey) == calc_price(turkey.weight)

leftover_value(turkey) == (price(turkey) * LEFTOVER_VALUE[1]) \div LEFTOVER_VALUE[2]

ideal_price(customer) == calc_price(customer.target_weight)

agreed_price_sign_slip(customer, turkey) ==
    IF customer.target_weight > turkey.weight
    THEN price(turkey)
    ELSE (ideal_price(customer) - price(turkey)) \div 2

agreed_price(customer, turkey) ==
    IF customer.target_weight > turkey.weight
    THEN price(turkey)
    ELSE (ideal_price(customer) + price(turkey)) \div 2

\* ------------------------------------------------------------- calc_profit
\* set(turkeys): the objects of the list, by identity
set(ts) == DOMAIN ts

leftovers(ts, p) == set(ts) \ DOMAIN p

calc_profit_leftover_value(ts, p) ==
    sum([t \in leftovers(ts, p) |-> leftover_value(ts[t])])

sell_profit(ts, cs, p) ==
    sum([t \in DOMAIN p |-> agreed_price(cs[p[t]], ts[t])])

\* the exception calc_profit raises, "none" when it returns
calc_profit_raises(ts, cs, p) ==
    IF ~(leftovers(ts, p) \subseteq set(ts)) THEN "AssertionError"
    ELSE IF ~(sell_profit(ts, cs, p) >= 0) THEN "AssertionError"
    ELSE "none"

calc_profit_no_leftovers(ts, cs, p) == sell_profit(ts, cs, p)

calc_profit(ts, cs, p) ==
    sell_profit(ts, cs, p) + calc_profit_leftover_value(ts, p)

\* ----------------------------------------------------------- brute_pairing
\* itertools.permutations(range(n), r): the r-length tuples of distinct
\* positions; none when r > n
permutations(n, r) ==
    {s \in [1..r -> 1..n] : \A i, j \in 1..r : i # j => s[i] # s[j]}

\* itertools.permutations emits tuples in lexicographic order of positions
emitted_before(a, b) ==
    \E i \in DOMAIN a :
        /\ a[i] < b[i]
        /\ \A j \in DOMAIN a : j < i => a[j] = b[j]

\* zip(ts, customers) stops at the shorter argument; dict() keeps the last
\* value given for a key
dict_zip(s, cs) ==
    LET m == Min(Len(s), Len(cs))
    IN  [x \in {s[i] : i \in 1..m} |->
            CHOOSE i \in 1..m :
                /\ s[i] = x
                /\ \A j \in 1..m : s[j] = x => j <= i]

perms(ts, cs) == permutations(Len(ts), Min(Len(cs), Len(ts)))

pairings(ts, cs) == {dict_zip(s, cs) : s \in perms(ts, cs)}

\* max(pairings, key=profit): the first emitted candidate of maximal profit
max_pairing(ts, cs) ==
    LET best == CHOOSE s \in perms(ts, cs) :
                    \A q \in perms(ts, cs) :
                        \/ q = s
                        \/ calc_profit(ts, cs, dict_zip(q, cs))
                             < calc_profit(ts, cs, dict_zip(s, cs))
                        \/ /\ calc_profit(ts, cs, dict_zip(q, cs))
                                = calc_profit(ts, cs, dict_zip(s, cs))
                           /\ emitted_before(s, q)
    IN  dict_zip(best, cs)

\* the exception brute_pairing raises, "none" when it returns
brute_pairing_raises(ts, cs) ==
    IF perms(ts, cs) = {} THEN "ValueError"
    ELSE IF \E p \in pairings(ts, cs) : calc_profit_raises(ts, cs, p) # "none"
         THEN "AssertionError"
         ELSE "none"

\* ------------------------------------------------------- hungarian_pairing
size_off_by_one(ts, cs) == Max(Len(ts), Len(cs)) + 1

size(ts, cs) == Max(Len(ts), Len(cs))

customer_at_clamped(cs, c) ==
    IF c <= Len(cs) THEN c ELSE Len(cs)

\* try: customers[c] except IndexError: None
customer_at(cs, c) == IF c <= Len(cs) THEN c ELSE None

\* try: turkeys[t] except IndexError: None
turkey_at(ts, t) == IF t <= Len(ts) THEN t ELSE None

\* cost of cell (t, c); None.leftover_value() is an AttributeError
cost(ts, cs, t, c) ==
    LET customer == customer_at(cs, c)
        turkey == turkey_at(ts, t)
    IN  IF customer = None
        THEN IF turkey = None
             THEN "AttributeError"
             ELSE -leftover_value(ts[turkey])
        ELSE IF turkey = None
             THEN 0
             ELSE -agreed_price(cs[customer], ts[turkey])

\* the filled matrix: first index customer, second index turkey
build_matrix(ts, cs) ==
    [cell \in (1..size(ts, cs)) \X (1..size(ts, cs)) |->
        cost(ts, cs, cell[2], cell[1])]

matrix_raises(ts, cs) ==
    IF \E t, c \in 1..size(ts, cs) :
           customer_at(cs, c) = None /\ turkey_at(ts, t) = None
    THEN "AttributeError"
    ELSE "none"

\* total cost of the assignment row r -> column rowsol[r]
assignment_cost(m, rowsol) == sum([r \in DOMAIN rowsol |-> m[r, rowsol[r]]])

inverse(rowsol) ==
    [col \in DOMAIN rowsol |-> CHOOSE r \in DOMAIN rowsol : rowsol[r] = col]

\* hungarian.lap(matrix): the pairs (rowsol, colsol) of the minimum-cost
\* perfect matchings; rowsol[r] is the column of row r, colsol[c] the row of
\* column c
lap(m, n) ==
    {<<rowsol, inverse(rowsol)>> : rowsol \in
        {s \in permutations(n, n) :
            \A o \in permutations(n, n) :
                assignment_cost(m, s) <= assignment_cost(m, o)}}

assign_t_to_c_by_rows(ts, cs, rowsol, colsol) ==
    [t \in {t \in DOMAIN rowsol : turkey_at(ts, t) # None} |->
        customer_at(cs, rowsol[t])]

\* the dict assign_t_to_c after the loop over enumerate(c_to_t)
build_assign_t_to_c(ts, cs, rowsol, colsol) ==
    [t \in {t \in DOMAIN colsol : turkey_at(ts, t) # None} |->
        customer_at(cs, colsol[t])]

\* the dict assign_c_to_t after the loop over enumerate(c_to_t); the last
\* position writing a key wins
build_assign_c_to_t(ts, cs, colsol) ==
    [c \in {customer_at(cs, colsol[t]) : t \in DOMAIN colsol} \ {None} |->
        turkey_at(ts,
            CHOOSE t \in DOMAIN colsol :
                /\ customer_at(cs, colsol[t]) = c
                /\ \A u \in DOMAIN colsol :
                       customer_at(cs, colsol[u]) = c => u <= t)]

\* ------------------------------------------------------------------- state
Unset == <<>>

Init ==
    /\ turkeys = <<>>
    /\ customers = <<>>
    /\ pc = "start"
    /\ called = "none"
    /\ raised = "none"
    /\ pairing = Unset
    /\ profit = 0
    /\ matrix = Unset
    /\ t_to_c = Unset
    /\ c_to_t = Unset
    /\ assign_t_to_c = Unset
    /\ assign_c_to_t = Unset

no_call == called' = "none" /\ raised' = "none" /\ pairing' = Unset
           /\ profit' = 0 /\ matrix' = Unset /\ t_to_c' = Unset
           /\ c_to_t' = Unset /\ assign_t_to_c' = Unset
           /\ assign_c_to_t' = Unset

\* one Turkey per row of the file
load_turkeys ==
    /\ pc = "start"
    /\ \E n \in 0..MaxTurkeys :
         \E w \in [1..n -> TurkeyWeights] :
            turkeys' = [i \in 1..n |-> Turkey(w[i])]
    /\ pc' = "turkeys_loaded"
    /\ UNCHANGED customers
    /\ no_call

\* one Customer per row of the file
load_customers ==
    /\ pc = "turkeys_loaded"
    /\ \E n \in 0..MaxCustomers :
         \E w \in [1..n -> TargetWeights] :
            customers' = [i \in 1..n |-> Customer(Names[i], w[i])]
    /\ pc' = "loaded"
    /\ UNCHANGED turkeys
    /\ no_call

\* a call calc_profit(turkeys, customers, p) with any dict p from turkeys of
\* the list to customers of the list
call_calc_profit ==
    /\ pc = "loaded"
    /\ \E keys \in SUBSET set(turkeys) :
         \E p \in [keys -> DOMAIN customers] :
            /\ pairing' = p
            /\ raised' = calc_profit_raises(turkeys, customers, p)
            /\ profit' = IF calc_profit_raises(turkeys, customers, p) = "none"
                         THEN calc_profit(turkeys, customers, p)
                         ELSE 0
    /\ called' = "calc_profit"
    /\ matrix' = Unset /\ t_to_c' = Unset /\ c_to_t' = Unset
    /\ assign_t_to_c' = Unset /\ assign_c_to_t' = Unset
    /\ pc' = "returned"
    /\ UNCHANGED <<turkeys, customers>>

\* a call brute_pairing(turkeys, customers)
brute_pairing ==
    /\ pc = "loaded"
    /\ called' = "brute_pairing"
    /\ raised' = brute_pairing_raises(turkeys, customers)
    /\ pairing' = IF brute_pairing_raises(turkeys, customers) = "none"
                  THEN max_pairing(turkeys, customers)
                  ELSE Unset
    /\ profit' = 0
    /\ matrix' = Unset /\ t_to_c' = Unset /\ c_to_t' = Unset
    /\ assign_t_to_c' = Unset /\ assign_c_to_t' = Unset
    /\ pc' = "returned"
    /\ UNCHANGED <<turkeys, customers>>

\* a call hungarian_pairing(turkeys, customers)
hungarian_pairing ==
    /\ pc = "loaded"
    /\ called' = "hungarian_pairing"
    /\ pairing' = Unset
    /\ profit' = 0
    /\ matrix' = build_matrix(turkeys, customers)
    /\ raised' = matrix_raises(turkeys, customers)
    /\ IF matrix_raises(turkeys, customers) # "none"
       THEN /\ t_to_c' = Unset /\ c_to_t' = Unset
            /\ assign_t_to_c' = Unset /\ assign_c_to_t' = Unset
       ELSE \E sol \in lap(build_matrix(turkeys, customers),
                           size(turkeys, customers)) :
               /\ t_to_c' = sol[1]
               /\ c_to_t' = sol[2]
               /\ assign_t_to_c' =
                    build_assign_t_to_c(turkeys, customers, sol[1], sol[2])
               /\ assign_c_to_t' =
                    build_assign_c_to_t(turkeys, customers, sol[2])
    /\ pc' = "returned"
    /\ UNCHANGED <<turkeys, customers>>

Next ==
    \/ load_turkeys
    \/ load_customers
    \/ call_calc_profit
    \/ brute_pairing
    \/ hungarian_pairing

Spec == Init /\ [][Next]_vars

\* ------------------------------------------------- vocabulary of the claims
NonNegative ==
    /\ \A t \in DOMAIN turkeys : turkeys[t].weight >= 0
    /\ \A c \in DOMAIN customers : customers[c].target_weight >= 0

Injective(p) == \A x, y \in DOMAIN p : x # y => p[x] # p[y]

\* every one-to-one partial pairing of the loaded turkeys and customers
PartialPairings ==
    {p \in UNION {[keys -> DOMAIN customers] : keys \in SUBSET DOMAIN turkeys} :
        Injective(p)}

\* agreed prices of the matched pairs plus leftover values of the turkeys
\* matched to no customer, for a dict turkey -> customer or None
TotalValue(p) ==
    sum([t \in DOMAIN turkeys |->
            IF t \in DOMAIN p /\ p[t] # None
            THEN agreed_price(customers[p[t]], turkeys[t])
            ELSE leftover_value(turkeys[t])])

LeftoverOfAll == sum([t \in DOMAIN turkeys |-> leftover_value(turkeys[t])])

MatchedPairs == {t \in DOMAIN assign_t_to_c : assign_t_to_c[t] # None}

HungarianReturned == called = "hungarian_pairing" /\ raised = "none"

BruteReturned == called = "brute_pairing" /\ raised = "none"

\* C1: for non-negative weights the pairing of brute_pairing and the pairing
\* of hungarian_pairing have the same total value
C1_BruteEqualsHungarian ==
    (HungarianReturned /\ NonNegative) =>
        calc_profit(turkeys, customers, max_pairing(turkeys, customers))
            = TotalValue(assign_t_to_c)

\* C2: no one-to-one partial pairing has a larger calc_profit than the
\* pairing brute_pairing returns (stated on the non-negative weights, where
\* it already fails)
C2_BruteIsMaximal ==
    (BruteReturned /\ NonNegative) =>
        \A p \in PartialPairings :
            calc_profit(turkeys, customers, p)
                <= calc_profit(turkeys, customers, pairing)

\* C3: no one-to-one partial pairing has a larger total value than the
\* pairing hungarian_pairing returns
C3_HungarianIsOptimal ==
    HungarianReturned =>
        \A p \in PartialPairings : TotalValue(p) <= TotalValue(assign_t_to_c)

\* C4: with non-negative weights calc_profit passes both assertions and
\* returns a non-negative value, for any dict from turkeys to customers
C4_ProfitNonNegative ==
    (called = "calc_profit" /\ NonNegative) =>
        /\ raised = "none"
        /\ leftovers(turkeys, pairing) \subseteq set(turkeys)
        /\ sell_profit(turkeys, customers, pairing) >= 0
        /\ profit >= 0

C4_Witness ==
    /\ called = "calc_profit"
    /\ NonNegative
    /\ Cardinality(DOMAIN pairing) = 2
    /\ ~Injective(pairing)
    /\ \E t \in DOMAIN pairing :
           customers[pairing[t]].target_weight < turkeys[t].weight
    /\ profit > 0

\* C5: no turkey and no customer is in two matched pairs, in the dict of
\* brute_pairing and in both dicts of hungarian_pairing
C5_PairingValid ==
    /\ BruteReturned =>
         /\ Injective(pairing)
         /\ DOMAIN pairing \subseteq DOMAIN turkeys
         /\ \A t \in DOMAIN pairing : pairing[t] \in DOMAIN customers
    /\ HungarianReturned =>
         /\ \A t, u \in MatchedPairs :
                t # u => assign_t_to_c[t] # assign_t_to_c[u]
         /\ \A c, d \in DOMAIN assign_c_to_t :
                (c # d /\ assign_c_to_t[c] # None)
                    => assign_c_to_t[c] # assign_c_to_t[d]

C5_Witness ==
    /\ HungarianReturned
    /\ NonNegative
    /\ Len(turkeys) = 2
    /\ Len(customers) = 3
    /\ Cardinality(MatchedPairs) = 2
    /\ Cardinality({c \in DOMAIN assign_c_to_t : assign_c_to_t[c] # None}) = 2

\* C6: with no turkeys and some customers each solver matches nothing, leaves
\* every customer unmatched and the value is 0; with no customers and some
\* turkeys each solver matches nothing, leaves every turkey unmatched and the
\* value is the sum of the leftover values
C6_Degenerate ==
    /\ (called = "brute_pairing" /\ (turkeys = <<>> \/ customers = <<>>)) =>
         /\ raised = "none"
         /\ DOMAIN pairing = {}
         /\ calc_profit(turkeys, customers, pairing) = LeftoverOfAll
         /\ turkeys = <<>> => calc_profit(turkeys, customers, pairing) = 0
    /\ (called = "hungarian_pairing" /\ turkeys = <<>>) =>
         /\ raised = "none"
         /\ DOMAIN assign_t_to_c = {}
         /\ DOMAIN assign_c_to_t = DOMAIN customers
         /\ \A c \in DOMAIN customers : assign_c_to_t[c] = None
         /\ TotalValue(assign_t_to_c) = 0
    /\ (called = "hungarian_pairing" /\ customers = <<>>) =>
         /\ raised = "none"
         /\ DOMAIN assign_c_to_t = {}
         /\ DOMAIN assign_t_to_c = DOMAIN turkeys
         /\ \A t \in DOMAIN turkeys : assign_t_to_c[t] = None
         /\ TotalValue(assign_t_to_c) = LeftoverOfAll

C6_Witness ==
    /\ called = "brute_pairing"
    /\ NonNegative
    /\ customers = <<>>
    /\ Len(turkeys) = 2
    /\ LeftoverOfAll > 0
    /\ pairing = <<>>

\* C7: a negative weight or target weight is rejected at construction, so no
\* list ever holds one and no positive cost is in the cost matrix
C7_NegativeRejected ==
    /\ NonNegative
    /\ HungarianReturned =>
         \A cell \in DOMAIN matrix : matrix[cell] <= 0

\* C8: turkeys 5.0 and 10.0, customers A (4.0) and B (12.0): A gets the 5.0
\* turkey at 4.0, B the 10.0 turkey at 10.0, total 14.0, no leftover
C8_Scenario ==
    ( /\ HungarianReturned
      /\ turkeys = <<Turkey(5), Turkey(10)>>
      /\ customers = <<Customer("A", 4), Customer("B", 12)>> ) =>
        /\ assign_c_to_t = <<1, 2>>
        /\ assign_t_to_c = <<1, 2>>
        /\ agreed_price(customers[1], turkeys[1]) = 4 * Scale
        /\ agreed_price(customers[2], turkeys[2]) = 10 * Scale
        /\ TotalValue(assign_t_to_c) = 14 * Scale

\* C9: the two dicts of hungarian_pairing are total and agree with each
\* other and with the matching: a turkey maps to None exactly when its
\* column is matched to the row of a phantom customer, a customer maps to
\* None exactly when its row is matched to the column of a phantom turkey
C9_MapsConsistent ==
    HungarianReturned =>
        /\ DOMAIN assign_t_to_c = DOMAIN turkeys
        /\ DOMAIN assign_c_to_t = DOMAIN customers
        /\ \A t \in DOMAIN turkeys : \A c \in DOMAIN customers :
               (assign_t_to_c[t] = c) <=> (assign_c_to_t[c] = t)
        /\ \A t \in DOMAIN turkeys :
               /\ (assign_t_to_c[t] = None) <=> (c_to_t[t] > Len(customers))
               /\ assign_t_to_c[t] # None => t_to_c[assign_t_to_c[t]] = t
        /\ \A c \in DOMAIN customers :
               /\ (assign_c_to_t[c] = None) <=> (t_to_c[c] > Len(turkeys))
               /\ assign_c_to_t[c] # None => c_to_t[assign_c_to_t[c]] = c

C9_Witness ==
    /\ HungarianReturned
    /\ NonNegative
    /\ Len(turkeys) = 2
    /\ Len(customers) = 3
    /\ \E c \in DOMAIN customers : assign_c_to_t[c] = None
    /\ \E t \in DOMAIN turkeys : t_to_c[t] # c_to_t[t]

\* C10: no cell of the cost matrix has a phantom turkey and a phantom
\* customer, so filling it never raises and every cell holds
\* -leftover_value, 0 or -agreed_price
C10_NoPhantomPhantom ==
    called = "hungarian_pairing" =>
        /\ raised = "none"
        /\ DOMAIN matrix =
             (1..Max(Len(turkeys), Len(customers)))
                \X (1..Max(Len(turkeys), Len(customers)))
        /\ \A cell \in DOMAIN matrix :
             LET c == cell[1]
                 t == cell[2]
             IN  /\ ~(c > Len(customers) /\ t > Len(turkeys))
                 /\ c > Len(customers)
                      => matrix[cell] = -leftover_value(turkeys[t])
                 /\ (c <= Len(customers) /\ t > Len(turkeys))
                      => matrix[cell] = 0
                 /\ (c <= Len(customers) /\ t <= Len(turkeys))
                      => matrix[cell] = -agreed_price(customers[c], turkeys[t])

C10_Witness ==
    /\ called = "hungarian_pairing"
    /\ NonNegative
    /\ Len(turkeys) = 2
    /\ Len(customers) = 1
    /\ matrix[2, 1] = -leftover_value(turkeys[1])
    /\ matrix[1, 2] = -agreed_price(customers[1], turkeys[2])

====
